---------------------------- MODULE Spec2Model ----------------------------
(***************************************************************************)
(* Model of nk3-diagnose (src/main.rs): the CCID/APDU transceiver, the     *)
(* application selectors, the UUID query, the PC/SC reader classifier and  *)
(* the USB device enumerator.                                              *)
(*                                                                         *)
(* Byte strings are sequences of integers 0..255.  A u128 is held as its   *)
(* eight base-65536 digits, most significant first (TLC integers are 32    *)
(* bits wide).  An anyhow::Error is a record with the kind of its root     *)
(* cause and its chain of messages, outermost context first.               *)
(***************************************************************************)
EXTENDS Integers, Sequences, FiniteSets, TLC

VARIABLES
    pc,        \* position of get_reader_status / get_readers
    ctx,       \* whether the pcsc::Context of get_readers is alive
    readers,   \* the names list_readers_owned returned
    idx,       \* index of the reader the map closure is working on
    step,      \* position inside get_firmware_reader for that reader
    card_open, \* readers (by index) with a connected pcsc::Card
    tx_held,   \* readers (by index) with a live pcsc::Transaction
    uuid,      \* the local `uuid` of get_firmware_reader
    results,   \* the Vec<Reader> collected so far
    log,       \* every call made on the PC/SC transport, in order
    ret,       \* what get_readers returned
    status,    \* what get_reader_status returned
    tcall,     \* one call of ccid_transmit: arguments, card answer, result
    ucall,     \* one call of admin_get_uuid: card answer, result
    dcall      \* one call of find_devices: the USB world, result

vars == <<pc, ctx, readers, idx, step, card_open, tx_held, uuid, results,
          log, ret, status, tcall, ucall, dcall>>

passVars == <<pc, ctx, readers, idx, step, card_open, tx_held, uuid,
              results, log, ret, status>>

(***************************************************************************)
(* Bounds of the model.                                                    *)
(***************************************************************************)
MaxReaders == 2      \* longest reader list the PC/SC layer reports
MaxDataLen == 257    \* longest data argument handed to ccid_transmit
MaxUsbDevices == 2   \* longest USB device list
MaxBootloaders == 2  \* longest bootloader list

(***************************************************************************)
(* Program constants.                                                      *)
(***************************************************************************)
VID_FIRMWARE == 4617
PID_FIRMWARE == 48878

FIRMWARE_READER_NAME ==
    <<83, 111, 108, 111, 75, 101, 121, 115, 32, 83, 111, 108, 111, 32, 50,
      32, 91, 67, 67, 73, 68, 47, 73, 67, 67, 68, 32, 73, 110, 116, 101,
      114, 102, 97, 99, 101, 93>>

AID_ADMIN == <<160, 0, 0, 8, 71, 0, 0, 0, 1>>
AID_PROVISIONER == <<160, 0, 0, 8, 71, 1, 0, 0, 1>>

U8_MAX == 255
INS_SELECT == 164
P1_SELECT == 4
INS_GET_UUID == 98
LE_UUID == 16
UUID_BYTES == 16
SW1_OK == 144
SW2_OK == 0

Byte == 0..U8_MAX

\* Option<u8>
None == [some |-> FALSE, val |-> 0]
Some(v) == [some |-> TRUE, val |-> v]

(***************************************************************************)
(* anyhow errors.                                                          *)
(***************************************************************************)
Msg(text) == [msg |-> text, arg |-> <<>>]
MsgArg(text, a) == [msg |-> text, arg |-> a]

NoError == [kind |-> "none", chain |-> <<>>]
Error(k, m) == [kind |-> k, chain |-> <<m>>]

\* Result::context / with_context: wraps an error, keeps its cause
Context(e, m) == [e EXCEPT !.chain = <<m>> \o @]

\* the innermost message of an error: its root cause
RootCause(e) == e.chain[Len(e.chain)]

(***************************************************************************)
(* ccid_transmit                                                           *)
(***************************************************************************)
HexDigits ==
    <<"0", "1", "2", "3", "4", "5", "6", "7", "8", "9", "A", "B", "C", "D",
      "E", "F">>

\* format!("{:X}", n): upper-case hexadecimal, no padding
RECURSIVE UpperHex(_)
UpperHex(n) ==
    IF n < 16 THEN <<HexDigits[n + 1]>>
    ELSE UpperHex(n \div 16) \o <<HexDigits[(n % 16) + 1]>>

\* the text of "{:X}{:X}", sw1, sw2
StatusCodeText(sw1, sw2) == UpperHex(sw1) \o UpperHex(sw2)

\* u8::try_from(data.len()) succeeds
LcFits(data) == Len(data) <= U8_MAX

BuildRequestNoLc(ins, p1, p2, data, le) ==
    <<0, ins, p1, p2>> \o data \o (IF le.some THEN <<le.val>> ELSE <<>>)

\* the request vector, given that Lc fits
BuildRequest(ins, p1, p2, data, le) ==
    LET header == <<0, ins, p1, p2>>
        body == IF data # <<>> THEN <<Len(data)>> \o data ELSE <<>>
        tail == IF le.some THEN <<le.val>> ELSE <<>>
    IN  header \o body \o tail

\* response_len
ResponseLen(le) ==
    (IF le.some THEN (IF le.val = 0 THEN U8_MAX + 1 ELSE le.val) ELSE 0) + 2

(***************************************************************************)
(* The card's answer to one transmit: the link fails, or the card answers  *)
(* with some bytes.  pcsc's transmit fails when the answer does not fit    *)
(* the response buffer.                                                    *)
(***************************************************************************)
LinkError == [ok |-> FALSE, bytes |-> <<>>]
Answer(b) == [ok |-> TRUE, bytes |-> b]

Transmit(outcome, cap) ==
    IF outcome.ok /\ Len(outcome.bytes) <= cap THEN outcome ELSE LinkError

IsSuccessSw1Only(sw1, sw2) == sw1 = SW1_OK

\* (sw1, sw2) == (0x90, 0x00)
IsSuccess(sw1, sw2) == sw1 = SW1_OK /\ sw2 = SW2_OK

TxResult(k, e, pl, s1, s2, req, sent) ==
    [kind |-> k, err |-> e, payload |-> pl, sw1 |-> s1, sw2 |-> s2,
     request |-> req, sent |-> sent]

\* the response after truncate(n): pop sw2, pop sw1, compare
ParseResponse(response, request) ==
    LET n == Len(response) IN
    IF n < 2
    THEN TxResult("framing", Error("framing", Msg("CCID response too short")),
                  <<>>, 0, 0, request, <<request>>)
    ELSE LET sw2 == response[n]
             sw1 == response[n - 1]
             rest == SubSeq(response, 1, n - 2)
         IN  IF IsSuccess(sw1, sw2)
             THEN TxResult("ok", NoError, rest, sw1, sw2, request, <<request>>)
             ELSE TxResult("command",
                      Error("command",
                            MsgArg("CCID command failed with status code",
                                   StatusCodeText(sw1, sw2))),
                      <<>>, sw1, sw2, request, <<request>>)

\* ccid_transmit(tx, ins, p1, p2, data, le) when the card answers `outcome`.
\* `sent` lists the requests handed to tx.transmit.
CcidTransmit(ins, p1, p2, data, le, outcome) ==
    IF ~LcFits(data)
    THEN TxResult("config", Context(Error("config", Msg("TryFromIntError")),
                                    Msg("AID too long")),
                  <<>>, 0, 0, <<>>, <<>>)
    ELSE LET request == BuildRequest(ins, p1, p2, data, le)
             got == Transmit(outcome, ResponseLen(le))
         IN  IF ~got.ok
             THEN TxResult("transport",
                      Context(Error("transport", Msg("pcsc::Error")),
                              Msg("Failed to transmit data to smartcard")),
                      <<>>, 0, 0, request, <<request>>)
             ELSE ParseResponse(got.bytes, request)

\* anyhow::Result<Vec<u8>> -> anyhow::Result<()> with the AID as context
SelectResult(r, aid) ==
    IF r.kind = "ok" THEN [r EXCEPT !.payload = <<>>]
    ELSE [r EXCEPT !.err = Context(@, MsgArg("Failed to select AID", aid))]

CcidSelect(aid, outcome) ==
    SelectResult(CcidTransmit(INS_SELECT, P1_SELECT, 0, aid, None, outcome), aid)

CcidSelect2(aid, outcome) ==
    SelectResult(CcidTransmit(INS_SELECT, P1_SELECT, 0, aid, Some(LE_UUID),
                              outcome), aid)

(***************************************************************************)
(* admin_get_uuid                                                          *)
(***************************************************************************)
U128Zero == <<0, 0, 0, 0, 0, 0, 0, 0>>

FromLeBytes(b) ==
    [i \in 1..(UUID_BYTES \div 2) |->
        b[UUID_BYTES - 2 * i + 2] * 256 + b[UUID_BYTES - 2 * i + 1]]

\* u128::from_be_bytes: the first byte is the most significant
FromBeBytes(b) ==
    [i \in 1..(UUID_BYTES \div 2) |-> b[2 * i - 1] * 256 + b[2 * i]]

\* u128::to_be_bytes, the inverse encoding
ToBeBytes(v) ==
    [i \in 1..UUID_BYTES |->
        IF i % 2 = 1 THEN v[(i + 1) \div 2] \div 256 ELSE v[i \div 2] % 256]

UuidResult(k, e, v, req, sent) ==
    [kind |-> k, err |-> e, value |-> v, request |-> req, sent |-> sent]

AdminGetUuid(outcome) ==
    LET r == CcidTransmit(INS_GET_UUID, 0, 0, <<>>, Some(LE_UUID), outcome) IN
    IF r.kind # "ok"
    THEN UuidResult(r.kind, Context(r.err, Msg("Failed to query UUID")),
                    U128Zero, r.request, r.sent)
    ELSE IF Len(r.payload) # UUID_BYTES
         THEN UuidResult("parse", Error("parse", Msg("Expected 16 UUID bytes")),
                         U128Zero, r.request, r.sent)
         ELSE UuidResult("ok", NoError, FromBeBytes(r.payload), r.request,
                         r.sent)


(***************************************************************************)
(* Inputs: what a card can answer, and the arguments ccid_transmit is      *)
(* called with.                                                            *)
(***************************************************************************)
\* payloads of every length up to one more than the UUID query's buffer holds
PayloadSample(n) == [i \in 1..n |-> ((i - 1) * 17) % 256]
UuidOne == [i \in 1..UUID_BYTES |-> IF i = UUID_BYTES THEN 1 ELSE 0]
Payloads == {PayloadSample(n) : n \in 0..(UUID_BYTES + 1)} \cup {UuidOne}

StatusWords ==
    {<<144, 0>>, <<106, 130>>, <<109, 0>>, <<6, 208>>, <<106, 8>>,
     <<6, 168>>, <<144, 1>>, <<0, 144>>, <<145, 0>>}

ShortAnswers == {<<>>, <<144>>, <<0>>}

CardOutcomes ==
    {LinkError} \cup {Answer(p \o sw) : p \in Payloads, sw \in StatusWords}
                \cup {Answer(b) : b \in ShortAnswers}

DataSample(n) == [i \in 1..n |-> (i * 37 + 11) % 256]
LeOptions == {None, Some(0), Some(1), Some(LE_UUID), Some(U8_MAX)}

FewOutcomes == {LinkError, Answer(<<144, 0>>), Answer(<<1, 2, 106, 130>>)}

\* every data length with a few answers, and a few data with every answer
TransmitArgs ==
    ({INS_SELECT, INS_GET_UUID} \X {DataSample(n) : n \in 0..MaxDataLen}
        \X LeOptions \X FewOutcomes)
    \cup ({INS_SELECT, INS_GET_UUID} \X {<<>>, AID_ADMIN} \X LeOptions
        \X CardOutcomes)

NoTxResult == TxResult("none", NoError, <<>>, 0, 0, <<>>, <<>>)

TCallIdle ==
    [called |-> FALSE, ins |-> 0, p1 |-> 0, p2 |-> 0, data |-> <<>>,
     le |-> None, outcome |-> LinkError, result |-> NoTxResult]

UCallIdle ==
    [called |-> FALSE, outcome |-> LinkError,
     result |-> UuidResult("none", NoError, U128Zero, <<>>, <<>>)]

\* one call of ccid_transmit
TransmitCall ==
    /\ ~tcall.called /\ ~ucall.called
    /\ \E a \in TransmitArgs, p1 \in {0, P1_SELECT} :
          tcall' = [called |-> TRUE, ins |-> a[1], p1 |-> p1, p2 |-> 0,
                    data |-> a[2], le |-> a[3], outcome |-> a[4],
                    result |-> CcidTransmit(a[1], p1, 0, a[2], a[3], a[4])]
    /\ UNCHANGED <<passVars, ucall, dcall>>

\* one call of admin_get_uuid
UuidCall ==
    /\ ~tcall.called /\ ~ucall.called
    /\ \E out \in CardOutcomes :
          ucall' = [called |-> TRUE, outcome |-> out,
                    result |-> AdminGetUuid(out)]
    /\ UNCHANGED <<passVars, tcall, dcall>>

(***************************************************************************)
(* get_readers / get_firmware_reader / get_reader_status                   *)
(***************************************************************************)
StartsWithEitherWay(s, p) ==
    \A i \in 1..(IF Len(s) < Len(p) THEN Len(s) ELSE Len(p)) : s[i] = p[i]

\* <[u8]>::starts_with
StartsWith(s, p) ==
    /\ Len(s) >= Len(p)
    /\ \A i \in 1..Len(p) : s[i] = p[i]

\* enum Reader
FirmwareEntry(u, prov) ==
    [kind |-> "Firmware", uuid |-> u, provisioner |-> prov, err |-> NoError,
     name |-> <<>>]
UnsupportedEntry(e) ==
    [kind |-> "Unsupported", uuid |-> U128Zero, provisioner |-> FALSE,
     err |-> e, name |-> <<>>]
OtherEntry(n) ==
    [kind |-> "Other", uuid |-> U128Zero, provisioner |-> FALSE,
     err |-> NoError, name |-> n]

IsErrIgnored(r) == FALSE

\* the `?` after a call: an Err leaves the function
IsErr(r) == r.kind # "ok"

ProbeEntryPropagating(u, r) ==
    IF r.kind = "ok" THEN FirmwareEntry(u, TRUE) ELSE UnsupportedEntry(r.err)

\* ccid_select2(..).is_ok() and the FirmwareReader built from it
ProbeEntry(u, r) == FirmwareEntry(u, r.kind = "ok")

LeakGuard(guards, i) == guards

\* the Drop of a Card or Transaction when get_firmware_reader is left
DropGuard(guards, i) == guards \ {i}

CollectSkippingErrors(rs, e) ==
    IF e.kind = "Unsupported" THEN rs ELSE Append(rs, e)

\* .map(..).collect(): one entry per reader, in order
Collect(rs, e) == Append(rs, e)

TransportError(context) ==
    Context(Error("transport", Msg("pcsc::Error")), Msg(context))

\* an entry of the transport log: the call (reader index, 0 for the context
\* calls), what the transport answered, how the call ended, and the cards and
\* transactions alive when it was made
LogEntry(i, op, req, r, ans) ==
    [rdr |-> i, op |-> op, mode |-> IF op = "connect" THEN "Shared" ELSE "",
     request |-> req, answer |-> ans, kind |-> r.kind,
     cause |-> IF r.kind = "ok" THEN Msg("") ELSE RootCause(r.err),
     held |-> tx_held, open |-> card_open]

Plain(k, e) == [kind |-> k, err |-> e]

\* the transmit calls one ccid command made
Transmits(i, r, ans) ==
    [k \in 1..Len(r.sent) |-> LogEntry(i, "transmit", r.sent[k], r, ans)]

Ok(v) == [ok |-> TRUE, value |-> v, err |-> NoError]
Err(e) == [ok |-> FALSE, value |-> <<>>, err |-> e]

\* the reader names the PC/SC layer may list
ReaderNames ==
    {FIRMWARE_READER_NAME,
     FIRMWARE_READER_NAME \o <<32, 40, 48, 49, 41, 32, 80, 73, 68>>,
     <<71, 101, 110, 101, 114, 105, 99, 32, 83, 109, 97, 114, 116, 32, 67,
       97, 114, 100, 32, 82, 101, 97, 100, 101, 114>>,
     SubSeq(FIRMWARE_READER_NAME, 1, Len(FIRMWARE_READER_NAME) - 1)}

ReaderLists == UNION {[1..n -> ReaderNames] : n \in 0..MaxReaders}

\* what a card answers during a classification pass
PassOutcomes ==
    {LinkError, Answer(<<>>), Answer(<<144, 0>>), Answer(<<106, 130>>),
     Answer(UuidOne \o <<144, 0>>),
     Answer(PayloadSample(UUID_BYTES) \o <<144, 0>>),
     Answer(PayloadSample(UUID_BYTES - 1) \o <<144, 0>>),
     Answer(PayloadSample(UUID_BYTES + 1) \o <<144, 0>>)}

Matches(i) == StartsWith(readers[i], FIRMWARE_READER_NAME)

InClosure == pc = "classify" /\ idx <= Len(readers)

\* get_firmware_reader returns: its guards drop, the closure maps the result
\* to a Reader and the iterator moves on
ExitReader(entry) ==
    /\ results' = Collect(results, entry)
    /\ tx_held' = DropGuard(tx_held, idx)
    /\ card_open' = DropGuard(card_open, idx)
    /\ idx' = idx + 1
    /\ step' = "idle"
    /\ uuid' = U128Zero

Stay(next) ==
    /\ step' = next
    /\ UNCHANGED <<results, idx>>

\* pcsc::Context::establish
Establish ==
    /\ pc = "start"
    /\ \/ /\ ctx' = TRUE
          /\ pc' = "list"
          /\ log' = Append(log, LogEntry(0, "establish", <<>>,
                                         Plain("ok", NoError), LinkError))
          /\ UNCHANGED ret
       \/ /\ ret' = Err(TransportError("Failed to establish pcsc context"))
          /\ pc' = "returned"
          /\ log' = Append(log, LogEntry(0, "establish", <<>>,
                                         Plain("transport", ret'.err), LinkError))
          /\ UNCHANGED ctx
    /\ UNCHANGED <<readers, idx, step, card_open, tx_held, uuid, results,
                   status, tcall, ucall, dcall>>

\* ctx.list_readers_owned()
ListReaders ==
    /\ pc = "list"
    /\ \/ /\ \E names \in ReaderLists : readers' = names
          /\ pc' = "classify"
          /\ log' = Append(log, LogEntry(0, "list_readers", <<>>,
                                         Plain("ok", NoError), LinkError))
          /\ UNCHANGED <<ret, ctx>>
       \/ /\ ret' = Err(TransportError("Failed to list pcsc readers"))
          /\ pc' = "returned"
          /\ ctx' = FALSE
          /\ log' = Append(log, LogEntry(0, "list_readers", <<>>,
                                         Plain("transport", ret'.err), LinkError))
          /\ UNCHANGED readers
    /\ UNCHANGED <<idx, step, card_open, tx_held, uuid, results, status,
                   tcall, ucall, dcall>>

\* the else branch of the closure
ClassifyOther ==
    /\ InClosure
    /\ step = "idle"
    /\ ~Matches(idx)
    /\ results' = Collect(results, OtherEntry(readers[idx]))
    /\ idx' = idx + 1
    /\ UNCHANGED <<pc, ctx, readers, step, card_open, tx_held, uuid, log, ret,
                   status, tcall, ucall, dcall>>

\* ctx.connect(reader, Shared, T1)
Connect ==
    /\ InClosure
    /\ step = "idle"
    /\ Matches(idx)
    /\ \E r \in {Plain("ok", NoError),
                 Plain("transport",
                       TransportError("Failed to connect to smartcard reader"))} :
          /\ log' = Append(log, LogEntry(idx, "connect", <<>>, r, LinkError))
          /\ IF IsErr(r)
             THEN ExitReader(UnsupportedEntry(r.err))
             ELSE /\ Stay("connected")
                  /\ card_open' = card_open \cup {idx}
                  /\ UNCHANGED <<tx_held, uuid>>
    /\ UNCHANGED <<pc, ctx, readers, ret, status, tcall, ucall, dcall>>

\* reader.transaction()
BeginTransaction ==
    /\ InClosure
    /\ step = "connected"
    /\ \E r \in {Plain("ok", NoError),
                 Plain("transport",
                       TransportError("Failed to start smartcard transaction"))} :
          /\ log' = Append(log, LogEntry(idx, "transaction", <<>>, r, LinkError))
          /\ IF IsErr(r)
             THEN ExitReader(UnsupportedEntry(r.err))
             ELSE /\ Stay("in_tx")
                  /\ tx_held' = tx_held \cup {idx}
                  /\ UNCHANGED <<card_open, uuid>>
    /\ UNCHANGED <<pc, ctx, readers, ret, status, tcall, ucall, dcall>>

\* ccid_select(&tx, AID_ADMIN)
SelectAdmin ==
    /\ InClosure
    /\ step = "in_tx"
    /\ \E out \in PassOutcomes :
          LET r == CcidSelect(AID_ADMIN, out) IN
          /\ log' = log \o Transmits(idx, r, out)
          /\ IF IsErr(r)
             THEN ExitReader(UnsupportedEntry(
                      Context(r.err, Msg("Failed to select admin application"))))
             ELSE /\ Stay("selected")
                  /\ UNCHANGED <<card_open, tx_held, uuid>>
    /\ UNCHANGED <<pc, ctx, readers, ret, status, tcall, ucall, dcall>>

\* admin_get_uuid(&tx)
QueryUuid ==
    /\ InClosure
    /\ step = "selected"
    /\ \E out \in PassOutcomes :
          LET r == AdminGetUuid(out) IN
          /\ log' = log \o Transmits(idx, r, out)
          /\ IF IsErr(r)
             THEN ExitReader(UnsupportedEntry(
                      Context(r.err, Msg("Failed to query UUID"))))
             ELSE /\ Stay("queried")
                  /\ uuid' = r.value
                  /\ UNCHANGED <<card_open, tx_held>>
    /\ UNCHANGED <<pc, ctx, readers, ret, status, tcall, ucall, dcall>>

\* ccid_select2(&tx, AID_PROVISIONER).is_ok(), Ok(FirmwareReader {..})
ProbeProvisioner ==
    /\ InClosure
    /\ step = "queried"
    /\ \E out \in PassOutcomes :
          LET r == CcidSelect2(AID_PROVISIONER, out) IN
          /\ log' = log \o Transmits(idx, r, out)
          /\ ExitReader(ProbeEntry(uuid, r))
    /\ UNCHANGED <<pc, ctx, readers, ret, status, tcall, ucall, dcall>>

\* collect() is done: get_readers returns Ok, its context drops
ReturnReaders ==
    /\ pc = "classify"
    /\ idx > Len(readers)
    /\ ret' = Ok(results)
    /\ ctx' = FALSE
    /\ pc' = "returned"
    /\ UNCHANGED <<readers, idx, step, card_open, tx_held, uuid, results, log,
                   status, tcall, ucall, dcall>>

OfKind(rs, k) == SelectSeq(rs, LAMBDA e : e.kind = k)

NoStatus ==
    [ok |-> FALSE, err |-> NoError, firmware_readers |-> <<>>,
     unsupported_readers |-> <<>>, other_readers |-> <<>>]

\* get_reader_status: `?` on get_readers, then the three pushes
ReaderStatusOf(r) ==
    IF ~r.ok THEN [NoStatus EXCEPT !.err = r.err]
    ELSE [ok |-> TRUE, err |-> NoError,
          firmware_readers |-> OfKind(r.value, "Firmware"),
          unsupported_readers |-> OfKind(r.value, "Unsupported"),
          other_readers |-> OfKind(r.value, "Other")]

GetReaderStatus ==
    /\ pc = "returned"
    /\ status' = ReaderStatusOf(ret)
    /\ pc' = "done"
    /\ UNCHANGED <<ctx, readers, idx, step, card_open, tx_held, uuid, results,
                   log, ret, tcall, ucall, dcall>>

(***************************************************************************)
(* find_devices                                                            *)
(***************************************************************************)
\* enum Device
BootloaderDevice(v, p, u) ==
    [kind |-> "Bootloader", vid |-> v, pid |-> p, uuid |-> u, bus |-> 0,
     address |-> 0]
FirmwareDevice(b, a) ==
    [kind |-> "Firmware", vid |-> 0, pid |-> 0, uuid |-> U128Zero, bus |-> b,
     address |-> a]

\* impl From<lpc55::bootloader::Bootloader> for Device
FromBootloader(b) == BootloaderDevice(b.vid, b.pid, b.uuid)

\* find_bootloader_devices, given what Bootloader::list() reports
FindBootloaderDevices(boots) == [i \in 1..Len(boots) |-> FromBootloader(boots[i])]

IsFirmwareDeviceVidOnly(desc) == desc.vid = VID_FIRMWARE

\* desc.vendor_id() == VID_FIRMWARE && desc.product_id() == PID_FIRMWARE
IsFirmwareDevice(desc) == desc.vid = VID_FIRMWARE /\ desc.pid = PID_FIRMWARE

\* the for loop of find_firmware_devices from device i on
RECURSIVE UsbLoop(_, _, _)
UsbLoop(devs, i, acc) ==
    IF i > Len(devs) THEN Ok(acc)
    ELSE IF ~devs[i].desc_ok
         THEN Err(Context(Error("transport", Msg("libusb::Error")),
                          Msg("Failed to query device descriptor")))
         ELSE UsbLoop(devs, i + 1,
                      IF IsFirmwareDevice(devs[i])
                      THEN Append(acc, FirmwareDevice(devs[i].bus,
                                                      devs[i].address))
                      ELSE acc)

FindFirmwareDevices(usb) ==
    IF ~usb.ctx_ok
    THEN Err(Context(Error("transport", Msg("libusb::Error")),
                     Msg("Failed to establish libusb context")))
    ELSE IF ~usb.list_ok
         THEN Err(Context(Error("transport", Msg("libusb::Error")),
                          Msg("Failed to list USB devices")))
         ELSE UsbLoop(usb.devices, 1, <<>>)

FindDevices(boots, usb) ==
    LET devices == FindBootloaderDevices(boots)
        firmware == FindFirmwareDevices(usb)
    IN  IF ~firmware.ok THEN Err(firmware.err)
        ELSE Ok(devices \o firmware.value)

\* what the bootloader enumerator and the USB layer may report
BootSamples ==
    {[vid |-> 8137, pid |-> 33, uuid |-> FromBeBytes(UuidOne)],
     [vid |-> 4617, pid |-> 48878,
      uuid |-> FromBeBytes(PayloadSample(UUID_BYTES))]}

UsbDevice(ok, v, p, b, a) ==
    [desc_ok |-> ok, vid |-> v, pid |-> p, bus |-> b, address |-> a]

UsbSamples ==
    {UsbDevice(TRUE, 4617, 48878, 1, 5), UsbDevice(TRUE, 4617, 48878, 2, 7),
     UsbDevice(TRUE, 4617, 48879, 1, 6), UsbDevice(TRUE, 8137, 48878, 3, 2),
     UsbDevice(FALSE, 4617, 48878, 1, 9), UsbDevice(FALSE, 7531, 260, 4, 1)}

BootLists == UNION {[1..n -> BootSamples] : n \in 0..MaxBootloaders}

UsbWorlds ==
    {[ctx_ok |-> c, list_ok |-> l, devices |-> d] :
        c \in BOOLEAN, l \in BOOLEAN,
        d \in UNION {[1..n -> UsbSamples] : n \in 0..MaxUsbDevices}}

DCallIdle ==
    [called |-> FALSE, boots |-> <<>>,
     usb |-> [ctx_ok |-> FALSE, list_ok |-> FALSE, devices |-> <<>>],
     result |-> Err(NoError)]

\* one call of find_devices
FindDevicesCall ==
    /\ ~dcall.called
    /\ \E boots \in BootLists, usb \in UsbWorlds :
          dcall' = [called |-> TRUE, boots |-> boots, usb |-> usb,
                    result |-> FindDevices(boots, usb)]
    /\ UNCHANGED <<passVars, tcall, ucall>>

(***************************************************************************)
(* Specifications                                                          *)
(***************************************************************************)
Init ==
    /\ pc = "start"
    /\ ctx = FALSE
    /\ readers = <<>>
    /\ idx = 1
    /\ step = "idle"
    /\ card_open = {}
    /\ tx_held = {}
    /\ uuid = U128Zero
    /\ results = <<>>
    /\ log = <<>>
    /\ ret = Err(NoError)
    /\ status = NoStatus
    /\ tcall = TCallIdle
    /\ ucall = UCallIdle
    /\ dcall = DCallIdle

\* one pass of get_reader_status
Next ==
    \/ Establish
    \/ ListReaders
    \/ ClassifyOther
    \/ Connect
    \/ BeginTransaction
    \/ SelectAdmin
    \/ QueryUuid
    \/ ProbeProvisioner
    \/ ReturnReaders
    \/ GetReaderStatus

Spec == Init /\ [][Next]_vars

\* calls of the transceiver and of the UUID query
NextTransmit == TransmitCall \/ UuidCall

SpecTransmit == Init /\ [][NextTransmit]_vars

\* calls of the device enumerator
NextDevices == FindDevicesCall

SpecDevices == Init /\ [][NextDevices]_vars

(***************************************************************************)
(* Properties of the classification pass, specification Spec               *)
(***************************************************************************)
\* the name begins with "SoloKeys Solo 2 [CCID/ICCD Interface]"
HasPrefix(n) ==
    /\ Len(n) >= 37
    /\ SubSeq(n, 1, 37) = FIRMWARE_READER_NAME

\* the transport calls made for reader i, in order
OpsOf(i) == SelectSeq(log, LAMBDA e : e.rdr = i)

\* the answer is a response the buffer of `cap` bytes holds, ending in 90 00
AnswersSuccess(ans, cap) ==
    /\ ans.ok
    /\ Len(ans.bytes) >= 2
    /\ Len(ans.bytes) <= cap
    /\ ans.bytes[Len(ans.bytes) - 1] = 144
    /\ ans.bytes[Len(ans.bytes)] = 0

\* C1: every classified reader gets exactly one entry, of exactly one of the
\* three kinds, and a reader whose name does not begin with the fixed prefix
\* is Other, carries its name, and no connect, transaction or transmit is
\* ever made for it.
C1_ClassificationTotal ==
    /\ pc = "classify" => Len(results) = idx - 1
    /\ \A i \in 1..Len(results) :
          /\ results[i].kind \in {"Firmware", "Unsupported", "Other"}
          /\ ~HasPrefix(readers[i]) =>
                /\ results[i].kind = "Other"
                /\ results[i].name = readers[i]
    /\ \A k \in 1..Len(log) :
          log[k].rdr # 0 => HasPrefix(readers[log[k].rdr])

C1_Witness ==
    /\ pc = "done"
    /\ Len(results) = 2
    /\ results[1].kind = "Other"
    /\ ~HasPrefix(readers[1])
    /\ Len(readers[1]) = 36
    /\ results[2].kind = "Firmware"

\* C4: once connect, transaction start, admin select and the UUID query have
\* succeeded for a reader, its entry is Firmware with the queried UUID, and
\* its provisioner flag is true exactly when the provisioner select was
\* answered with status 90 00; no failure of that select makes the reader
\* Unsupported.
C4_ProbeIsInformational ==
    \A i \in 1..Len(results) :
        LET ops == OpsOf(i) IN
        (Len(ops) >= 4 /\ \A k \in 1..4 : ops[k].kind = "ok") =>
            /\ results[i].kind = "Firmware"
            /\ Len(ops) = 5
            /\ ToBeBytes(results[i].uuid) = SubSeq(ops[4].answer.bytes, 1, 16)
            /\ results[i].provisioner = AnswersSuccess(ops[5].answer, 18)
            /\ results[i].provisioner = (ops[5].kind = "ok")

C4_Witness ==
    /\ pc = "done"
    /\ \E i \in 1..Len(results) :
          /\ results[i].kind = "Firmware"
          /\ ~results[i].provisioner
          /\ results[i].uuid = <<0, 0, 0, 0, 0, 0, 0, 1>>
          /\ OpsOf(i)[5].kind = "command"
    /\ \E j \in 1..Len(results) :
          /\ results[j].kind = "Firmware"
          /\ results[j].provisioner

\* C5: at most one transaction is held at any time, and only by the reader
\* being classified; none (and no card) is held between two readers, when a
\* connect is made, or after get_readers has returned; every transmit is made
\* while the transaction of its own reader is the one held.
C5_TransactionScoped ==
    /\ Cardinality(tx_held) <= 1
    /\ tx_held \subseteq {idx}
    /\ card_open \subseteq {idx}
    /\ tx_held \subseteq card_open
    /\ step = "idle" => tx_held = {} /\ card_open = {}
    /\ pc \in {"returned", "done"} => tx_held = {} /\ card_open = {}
    /\ \A k \in 1..Len(log) :
          /\ log[k].op = "connect" => log[k].held = {} /\ log[k].open = {}
          /\ log[k].op = "transmit" => log[k].held = {log[k].rdr}

C5_Witness ==
    /\ pc = "done"
    /\ Len(results) = 2
    /\ results[1].kind = "Unsupported"
    /\ Len(OpsOf(1)) = 4
    /\ results[2].kind = "Firmware"
    /\ ~results[2].provisioner

\* C6: get_readers fails exactly when establishing the context or listing the
\* readers failed, and so does get_reader_status; otherwise the returned list
\* has one entry per listed reader in listing order: entry i is Other with
\* name i when name i lacks the prefix, Unsupported when one of reader i's
\* connect, transaction, admin select or UUID query failed, Firmware
\* otherwise; every reader with the prefix was connected to.
C6_FailuresCollected ==
    /\ pc = "classify" => Len(results) = idx - 1
    /\ pc \in {"returned", "done"} =>
          /\ ret.ok = (\A k \in 1..Len(log) : log[k].rdr = 0 => log[k].kind = "ok")
          /\ ret.ok = (Len(log) >= 2 /\ log[2].op = "list_readers"
                                     /\ log[2].kind = "ok")
          /\ ret.ok =>
                /\ Len(ret.value) = Len(readers)
                /\ \A i \in 1..Len(readers) :
                      LET ops == OpsOf(i)
                          e == ret.value[i]
                      IN  /\ (e.kind = "Other") = ~HasPrefix(readers[i])
                          /\ e.kind = "Other" => e.name = readers[i]
                          /\ HasPrefix(readers[i]) =>
                                /\ Len(ops) >= 1
                                /\ ops[1].op = "connect"
                                /\ (e.kind = "Unsupported") =
                                      (\E k \in 1..Len(ops) :
                                          k <= 4 /\ ops[k].kind # "ok")
    /\ pc = "done" =>
          /\ status.ok = ret.ok
          /\ ~status.ok => status.err = ret.err
          /\ status.ok =>
                /\ Len(status.firmware_readers) + Len(status.unsupported_readers)
                      + Len(status.other_readers) = Len(readers)
                /\ \A i \in 1..Len(status.other_readers) :
                      ~HasPrefix(status.other_readers[i].name)

C6_Witness ==
    /\ pc = "done"
    /\ status.ok
    /\ Len(readers) = 2
    /\ readers[1] = readers[2]
    /\ ret.value[1].kind = "Unsupported"
    /\ ret.value[2].kind = "Firmware"
    /\ Len(status.unsupported_readers) = 1

\* the fixed sequence of calls for a reader with the prefix
ExpectedOps ==
    <<[op |-> "connect", mode |-> "Shared", request |-> <<>>,
       context |-> "Failed to connect to smartcard reader"],
      [op |-> "transaction", mode |-> "", request |-> <<>>,
       context |-> "Failed to start smartcard transaction"],
      [op |-> "transmit", mode |-> "",
       request |-> <<0, 164, 4, 0, 9, 160, 0, 0, 8, 71, 0, 0, 0, 1>>,
       context |-> "Failed to select admin application"],
      [op |-> "transmit", mode |-> "", request |-> <<0, 98, 0, 0, 16>>,
       context |-> "Failed to query UUID"],
      [op |-> "transmit", mode |-> "",
       request |-> <<0, 164, 4, 0, 9, 160, 0, 0, 8, 71, 1, 0, 0, 1, 16>>,
       context |-> ""]>>

\* C10: the calls made for a reader are a prefix of connect (shared), start
\* transaction, SELECT admin (no Le), query 0x62 (Le 16), SELECT provisioner
\* (Le 16); a call is made only when every earlier one succeeded; a reader one
\* of whose first four calls failed is Unsupported and carries that failure
\* (its kind, its root cause, and the context of the failed step outermost).
C10_FixedSequence ==
    \A i \in 1..Len(readers) :
        LET ops == OpsOf(i)
            n == Len(ops)
        IN  /\ n <= 5
            /\ \A k \in 1..n :
                  /\ ops[k].op = ExpectedOps[k].op
                  /\ ops[k].mode = ExpectedOps[k].mode
                  /\ ops[k].request = ExpectedOps[k].request
                  /\ k < n => ops[k].kind = "ok"
            /\ (i <= Len(results) /\ HasPrefix(readers[i])) =>
                  /\ n >= 1
                  /\ IF n <= 4 \/ ops[4].kind # "ok"
                     THEN /\ n <= 4
                          /\ ops[n].kind # "ok"
                          /\ results[i].kind = "Unsupported"
                          /\ results[i].err.kind = ops[n].kind
                          /\ RootCause(results[i].err) = ops[n].cause
                          /\ results[i].err.chain[1].msg = ExpectedOps[n].context
                     ELSE /\ n = 5
                          /\ results[i].kind = "Firmware"

C10_Witness ==
    /\ pc = "done"
    /\ Len(results) = 2
    /\ results[1].kind = "Unsupported"
    /\ Len(OpsOf(1)) = 3
    /\ OpsOf(1)[3].kind = "command"
    /\ RootCause(results[1].err).arg = <<"6", "A", "8", "2">>
    /\ results[2].kind = "Unsupported"
    /\ Len(OpsOf(2)) = 4
    /\ OpsOf(2)[4].kind = "parse"

(***************************************************************************)
(* Properties of ccid_transmit and admin_get_uuid, specification           *)
(* SpecTransmit                                                            *)
(***************************************************************************)
\* the card returned a response to this call of ccid_transmit
CardAnswered(c) ==
    /\ c.called
    /\ Len(c.data) <= 255
    /\ c.outcome.ok
    /\ Len(c.outcome.bytes) <= ResponseLen(c.le)

\* C2: a response of at least 2 bytes ending in 90 00 gives success with the
\* response minus its last two bytes; one ending in another pair gives a
\* command error carrying SW1 (second to last byte) and SW2 (last byte); a
\* response of 0 or 1 bytes gives the framing error "CCID response too short".
C2_ResponseParsing ==
    CardAnswered(tcall) =>
        LET resp == tcall.outcome.bytes
            n == Len(resp)
            r == tcall.result
        IN  IF n < 2
            THEN /\ r.kind = "framing"
                 /\ RootCause(r.err).msg = "CCID response too short"
            ELSE IF resp[n - 1] = 144 /\ resp[n] = 0
                 THEN /\ r.kind = "ok"
                      /\ r.payload = SubSeq(resp, 1, n - 2)
                      /\ r.payload \o <<144, 0>> = resp
                 ELSE /\ r.kind = "command"
                      /\ r.sw1 = resp[n - 1]
                      /\ r.sw2 = resp[n]
                      /\ RootCause(r.err).msg =
                            "CCID command failed with status code"

C2_Witness ==
    /\ CardAnswered(tcall)
    /\ tcall.result.kind = "ok"
    /\ Len(tcall.result.payload) = 16
    /\ Len(tcall.outcome.bytes) = 18

\* C3 as stated: for every data of 0 to 255 bytes the request holds, right
\* after the 4-byte header, a byte equal to the data length and then the
\* data; longer data fails with the configuration error and nothing is
\* transmitted.
C3_Original ==
    tcall.called =>
        LET req == tcall.result.request
            d == tcall.data
        IN  /\ Len(d) <= 255 =>
                  /\ Len(req) >= 5 + Len(d)
                  /\ SubSeq(req, 1, 4) = <<0, tcall.ins, tcall.p1, tcall.p2>>
                  /\ req[5] = Len(d)
                  /\ SubSeq(req, 6, 5 + Len(d)) = d
            /\ Len(d) > 255 =>
                  /\ tcall.result.kind = "config"
                  /\ tcall.result.sent = <<>>

\* C3, amended: for data of 1 to 255 bytes the request is the header
\* [0, ins, p1, p2], a byte equal to the data length, the data, and then Le
\* when one is given; for empty data it is the header followed only by Le
\* when one is given (no length byte); that request is the one transmitted,
\* once; data longer than 255 bytes fails with the configuration error
\* "AID too long" and nothing is transmitted.
C3_RequestFraming ==
    tcall.called =>
        LET req == tcall.result.request
            d == tcall.data
            hdr == <<0, tcall.ins, tcall.p1, tcall.p2>>
            tail == IF tcall.le.some THEN <<tcall.le.val>> ELSE <<>>
        IN  /\ (1 <= Len(d) /\ Len(d) <= 255) =>
                  /\ req = hdr \o <<Len(d)>> \o d \o tail
                  /\ req[5] = Len(d)
                  /\ SubSeq(req, 6, 5 + Len(d)) = d
                  /\ tcall.result.sent = <<req>>
            /\ Len(d) = 0 =>
                  /\ req = hdr \o tail
                  /\ tcall.result.sent = <<req>>
            /\ Len(d) > 255 =>
                  /\ tcall.result.kind = "config"
                  /\ tcall.result.err.chain[1].msg = "AID too long"
                  /\ tcall.result.sent = <<>>

C3_Witness ==
    /\ tcall.called
    /\ Len(tcall.data) = 255
    /\ tcall.le = Some(0)
    /\ tcall.result.kind = "ok"
    /\ Len(tcall.result.request) = 261

\* C7: the status code shown by a command error determines both status
\* bytes: no other pair (SW1, SW2) # (90, 00) is shown with the same text.
C7_StatusCodeDetermined ==
    (tcall.called /\ tcall.result.kind = "command") =>
        LET text == RootCause(tcall.result.err).arg IN
        \A a \in Byte :
            (/\ Len(UpperHex(a)) < Len(text)
             /\ SubSeq(text, 1, Len(UpperHex(a))) = UpperHex(a)) =>
                \A b \in Byte :
                    (<<a, b>> # <<144, 0>> /\ StatusCodeText(a, b) = text)
                    => (a = tcall.result.sw1 /\ b = tcall.result.sw2)

\* C9: admin_get_uuid transmits [00 62 00 00 10] once; a response of 18 bytes
\* ending in 90 00 gives a value whose big-endian encoding is the 16 payload
\* bytes (payload 00..00 01 gives 1); a shorter response ending in 90 00
\* gives the parse error "Expected 16 UUID bytes", which is none of the
\* transport, framing and command errors; a response that overflows the
\* 18-byte buffer is a transport error.
C9_UuidParsing ==
    ucall.called =>
        LET r == ucall.result
            ans == ucall.outcome
            n == Len(ans.bytes)
        IN  /\ r.request = <<0, 98, 0, 0, 16>>
            /\ r.sent = <<r.request>>
            /\ (ans.ok /\ n > 18) => r.kind = "transport"
            /\ AnswersSuccess(ans, 18) =>
                  IF n = 18
                  THEN /\ r.kind = "ok"
                       /\ ToBeBytes(r.value) = SubSeq(ans.bytes, 1, 16)
                       /\ SubSeq(ans.bytes, 1, 16)
                             = <<0, 0, 0, 0, 0, 0, 0, 0, 0, 0, 0, 0, 0, 0, 0, 1>>
                          => r.value = <<0, 0, 0, 0, 0, 0, 0, 1>>
                  ELSE /\ r.kind = "parse"
                       /\ r.kind \notin {"transport", "framing", "command"}
                       /\ r.err.chain = <<Msg("Expected 16 UUID bytes")>>
            /\ (ans.ok /\ n <= 18 /\ ~AnswersSuccess(ans, 18)) =>
                  r.kind \in {"framing", "command"}

C9_Witness ==
    /\ ucall.called
    /\ ucall.result.kind = "ok"
    /\ ucall.result.value = <<17, 8755, 17493, 26231, 34969, 43707, 52445, 61183>>

(***************************************************************************)
(* Properties of find_devices, specification SpecDevices                   *)
(***************************************************************************)
\* the USB devices with vendor id 0x1209 and product id 0xBEEE, in order
MatchingUsb(devs) ==
    SelectSeq(devs, LAMBDA d : d.vid = 4617 /\ d.pid = 48878)

\* C8: find_devices fails, returning no list, when the USB context, the
\* device listing or the descriptor query of any USB device fails; otherwise
\* it returns every reported bootloader device followed by one Firmware
\* entry, with bus and address, per USB device with ids 1209:BEEE, in order.
C8_DevicesAllOrNothing ==
    dcall.called =>
        LET usb == dcall.usb
            r == dcall.result
            failing ==
                \/ ~usb.ctx_ok
                \/ ~usb.list_ok
                \/ \E i \in 1..Len(usb.devices) : ~usb.devices[i].desc_ok
            fw == MatchingUsb(usb.devices)
            nb == Len(dcall.boots)
        IN  /\ r.ok = ~failing
            /\ ~r.ok => r.value = <<>>
            /\ r.ok =>
                  /\ Len(r.value) = nb + Len(fw)
                  /\ \A i \in 1..nb :
                        /\ r.value[i].kind = "Bootloader"
                        /\ r.value[i].vid = dcall.boots[i].vid
                        /\ r.value[i].pid = dcall.boots[i].pid
                        /\ r.value[i].uuid = dcall.boots[i].uuid
                  /\ \A i \in 1..Len(fw) :
                        /\ r.value[nb + i].kind = "Firmware"
                        /\ r.value[nb + i].bus = fw[i].bus
                        /\ r.value[nb + i].address = fw[i].address

C8_Witness ==
    /\ dcall.called
    /\ dcall.result.ok
    /\ Len(dcall.boots) = 1
    /\ Len(dcall.usb.devices) = 2
    /\ Len(dcall.result.value) = 2
    /\ dcall.result.value[2].kind = "Firmware"
    /\ dcall.result.value[2].bus = 2

=============================================================================
